---- MODULE Spec2Model ----
(***************************************************************************)
(* Fuzzy traffic-light controller (TrafficLightControl).                   *)
(*                                                                         *)
(* Two antecedents, waiting_cars and incoming_cars, on the universe 0..100 *)
(* with five automf triangles each; one consequent, wait_time, on 0..160   *)
(* with the triangles short, medium and long; 25 rules whose two           *)
(* antecedent terms are joined by |.  compute() is scikit-fuzzy's Mamdani  *)
(* inference: a rule fires with the fmax of its two term degrees, an       *)
(* output term is activated by the fmax of the rules that conclude it and  *)
(* clipped at that level, the clipped terms are joined by fmax, and the    *)
(* output is the centroid of the resulting curve, read at the points of    *)
(* the universe and at the points where a term meets its activation level, *)
(* with straight lines in between.                                         *)
(*                                                                         *)
(* Arithmetic is exact.  Car counts are integers.  A point x of a universe *)
(* is held as XScale*x and a membership degree d as DegOne*d; both are     *)
(* integers for every value the computation meets.  A wait time is the     *)
(* fraction num / (CentroidDiv * den) of two multi-limb naturals.          *)
(***************************************************************************)
EXTENDS Integers, Sequences, FiniteSets

VARIABLES
  rules,       \* the rules of the control system
  simulation,  \* self.simulation: inputs, term activations and outputs
  args,        \* the arguments (incoming, waiting) of the latest call
  ret,         \* how the latest call ended: a returned value or a raised error
  calls,       \* the number of calls made so far
  history      \* the calls made so far, oldest first: arguments and outcome

vars == <<rules, simulation, args, ret, calls, history>>

(***************************************************************************)
(* Scales of the exact arithmetic                                          *)
(***************************************************************************)
XScale == 25
DegOne == 878750
CentroidDiv == 3 * XScale

(***************************************************************************)
(* Multi-limb naturals: little-endian sequences of limbs in 0..BigBase-1   *)
(***************************************************************************)
BigBase == 10000

RECURSIVE BigCarry(_, _, _)
BigCarry(cols, k, carry) ==
  IF k > Len(cols)
  THEN IF carry = 0 THEN <<>> ELSE <<carry % BigBase>> \o BigCarry(cols, k, carry \div BigBase)
  ELSE <<(cols[k] + carry) % BigBase>> \o BigCarry(cols, k + 1, (cols[k] + carry) \div BigBase)

RECURSIVE BigTrim(_)
BigTrim(b) ==
  IF Len(b) > 0 /\ b[Len(b)] = 0 THEN BigTrim(SubSeq(b, 1, Len(b) - 1)) ELSE b

BigNorm(cols) == BigTrim(BigCarry(cols, 1, 0))

BigLimb(b, k) == IF k <= Len(b) THEN b[k] ELSE 0

BigMul(a, b) ==
  IF Len(a) = 0 \/ Len(b) = 0 THEN <<>>
  ELSE LET RECURSIVE Col(_, _)
           Col(k, j) == IF j > k THEN 0
                        ELSE BigLimb(a, j) * BigLimb(b, k + 1 - j) + Col(k, j + 1)
       IN BigNorm([k \in 1..(Len(a) + Len(b) - 1) |-> Col(k, 1)])

BigOfInt(n) == BigNorm(<<n>>)

RECURSIVE BigLessFrom(_, _, _)
BigLessFrom(a, b, k) ==
  IF k = 0 THEN FALSE
  ELSE IF a[k] # b[k] THEN a[k] < b[k]
  ELSE BigLessFrom(a, b, k - 1)

BigLess(a, b) ==
  IF Len(a) # Len(b) THEN Len(a) < Len(b) ELSE BigLessFrom(a, b, Len(a))

BigLeq(a, b) == ~BigLess(b, a)

(***************************************************************************)
(* Membership functions                                                    *)
(***************************************************************************)
Max2(a, b) == IF a >= b THEN a ELSE b
Min2(a, b) == IF a <= b THEN a ELSE b

\* fuzz.trimf(universe, [a, b, c]) read at the point X / XScale
Trimf(X, abc) ==
  LET a == XScale * abc[1]
      b == XScale * abc[2]
      c == XScale * abc[3]
  IN IF X = b THEN DegOne
     ELSE IF a < X /\ X < b THEN ((X - a) * (DegOne \div (b - a)))
     ELSE IF b < X /\ X < c THEN ((c - X) * (DegOne \div (c - b)))
     ELSE 0

InputLo == 0
InputHi == 100
OutputHi == 160

WaitingNames == <<"minimal", "light", "average", "heavy", "standstill">>
IncomingNames == <<"minimal", "light", "average", "heavy", "excess">>

\* variant: the half-width taken as half of the spacing of the centres
AutomfHalfWidthNarrow(number) == (InputHi - InputLo) \div (2 * (number - 1))

\* automf(names): len(names) triangles, centres evenly spaced over the
\* universe, half-width range / (number - 1)
AutomfHalfWidth(number) == (InputHi - InputLo) \div (number - 1)

Automf(names) ==
  LET number == Len(names)
      hw == AutomfHalfWidth(number)
      centre(k) == InputLo + (k - 1) * ((InputHi - InputLo) \div (number - 1))
  IN [n \in {names[k] : k \in 1..number} |->
        LET k == CHOOSE j \in 1..number : names[j] = n
        IN <<centre(k) - hw, centre(k), centre(k) + hw>>]

WaitingTerms == Automf(WaitingNames)
IncomingTerms == Automf(IncomingNames)

WaitTimeTerms ==
  [short |-> <<0, 50, 75>>, medium |-> <<50, 87, 125>>, long |-> <<100, 150, 160>>]

OutputNames == {"short", "medium", "long"}

Rule(w, i, o) == [waiting |-> w, incoming |-> i, then |-> o]

\* variant: the last line repeats the antecedent of the line before it
RuleListRepeated ==
  << Rule("minimal", "minimal", "short"),
     Rule("minimal", "light", "short"),
     Rule("minimal", "average", "medium"),
     Rule("minimal", "heavy", "long"),
     Rule("minimal", "excess", "long"),
     Rule("light", "minimal", "short"),
     Rule("light", "light", "short"),
     Rule("light", "average", "medium"),
     Rule("light", "heavy", "medium"),
     Rule("light", "excess", "long"),
     Rule("average", "minimal", "short"),
     Rule("average", "light", "medium"),
     Rule("average", "average", "medium"),
     Rule("average", "heavy", "long"),
     Rule("average", "excess", "long"),
     Rule("heavy", "minimal", "medium"),
     Rule("heavy", "light", "medium"),
     Rule("heavy", "average", "long"),
     Rule("heavy", "heavy", "long"),
     Rule("heavy", "excess", "long"),
     Rule("standstill", "minimal", "medium"),
     Rule("standstill", "light", "long"),
     Rule("standstill", "average", "long"),
     Rule("standstill", "heavy", "long"),
     Rule("standstill", "heavy", "long") >>

RuleList ==
  << Rule("minimal", "minimal", "short"),
     Rule("minimal", "light", "short"),
     Rule("minimal", "average", "medium"),
     Rule("minimal", "heavy", "long"),
     Rule("minimal", "excess", "long"),
     Rule("light", "minimal", "short"),
     Rule("light", "light", "short"),
     Rule("light", "average", "medium"),
     Rule("light", "heavy", "medium"),
     Rule("light", "excess", "long"),
     Rule("average", "minimal", "short"),
     Rule("average", "light", "medium"),
     Rule("average", "average", "medium"),
     Rule("average", "heavy", "long"),
     Rule("average", "excess", "long"),
     Rule("heavy", "minimal", "medium"),
     Rule("heavy", "light", "medium"),
     Rule("heavy", "average", "long"),
     Rule("heavy", "heavy", "long"),
     Rule("heavy", "excess", "long"),
     Rule("standstill", "minimal", "medium"),
     Rule("standstill", "light", "long"),
     Rule("standstill", "average", "long"),
     Rule("standstill", "heavy", "long"),
     Rule("standstill", "excess", "long") >>

(***************************************************************************)
(* Inference                                                               *)
(***************************************************************************)
\* degree of the crisp input x in one antecedent term
Fuzzify(terms, name, x) == Trimf(XScale * x, terms[name])

\* variant: the two antecedent terms joined by & (fmin)
RuleStrengthAnd(r, incoming, waiting) ==
  Min2(Fuzzify(WaitingTerms, r.waiting, waiting),
       Fuzzify(IncomingTerms, r.incoming, incoming))

\* firing strength of a rule: its two antecedent terms are joined by |
RuleStrength(r, incoming, waiting) ==
  Max2(Fuzzify(WaitingTerms, r.waiting, waiting),
       Fuzzify(IncomingTerms, r.incoming, incoming))

\* variant: a later rule overwrites the activation instead of accumulating
TermCutLast(rs, o, incoming, waiting) ==
  LET RECURSIVE Acc(_, _)
      Acc(k, cut) == IF k > Len(rs) THEN cut
                     ELSE IF rs[k].then = o
                          THEN Acc(k + 1, RuleStrength(rs[k], incoming, waiting))
                          ELSE Acc(k + 1, cut)
  IN Acc(1, 0)

\* activation of an output term: the strongest of the rules that conclude it
TermCut(rs, o, incoming, waiting) ==
  LET RECURSIVE Acc(_)
      Acc(k) == IF k > Len(rs) THEN 0
                ELSE IF rs[k].then = o
                     THEN Max2(RuleStrength(rs[k], incoming, waiting), Acc(k + 1))
                     ELSE Acc(k + 1)
  IN Acc(1)

Cuts(rs, incoming, waiting) ==
  [o \in OutputNames |-> TermCut(rs, o, incoming, waiting)]

\* aggregated output curve at the point X / XScale
Aggregate(cuts, X) ==
  Max2(Min2(cuts.short, Trimf(X, WaitTimeTerms.short)),
       Max2(Min2(cuts.medium, Trimf(X, WaitTimeTerms.medium)),
            Min2(cuts.long, Trimf(X, WaitTimeTerms.long))))

\* the points added to the universe for one term: where its sampled curve
\* crosses its activation level
CutPoints(abc, y) ==
  LET mf(k) == Trimf(XScale * k, abc)
      on(k) == IF y = 0 THEN mf(k) > y ELSE mf(k) >= y
  IN { XScale * k + (XScale * (y - mf(k))) \div (mf(k + 1) - mf(k)) :
         k \in { j \in 0..(OutputHi - 1) : on(j) # on(j + 1) } }

NewValues(cuts) ==
  CutPoints(WaitTimeTerms.short, cuts.short)
    \cup CutPoints(WaitTimeTerms.medium, cuts.medium)
    \cup CutPoints(WaitTimeTerms.long, cuts.long)

\* centroid of the aggregated curve over the upsampled universe: the sums,
\* over the consecutive pairs of points, of 2 * area and of 6 * moment * area
LowLimb(v) == v % BigBase
HighLimbs(v) == v \div BigBase

\* variant: the width of the pair of points left out of its area
SegArea2NoWidth(X1, X2, Y1, Y2) == Y1 + Y2

\* twice the area under the curve between two consecutive points
SegArea2(X1, X2, Y1, Y2) == (X2 - X1) * (Y1 + Y2)

\* six times moment * area between two consecutive points, as limbs
SegMoment6(X1, X2, Y1, Y2) ==
  LET a2 == (X2 - X1) * (Y1 + Y2)
      d2 == (X2 - X1) * (X2 - X1)
      w == Y1 + 2 * Y2
  IN << 3 * X1 * LowLimb(a2) + d2 * LowLimb(w),
        3 * X1 * HighLimbs(a2) + d2 * HighLimbs(w),
        0 >>

\* sum of two three-limb accumulators; the two low limbs of the result are
\* below BigBase
AccPlus(a, b) ==
  LET t1 == a[1] + b[1]
      t2 == a[2] + b[2] + (t1 \div BigBase)
  IN <<t1 % BigBase, t2 % BigBase, a[3] + b[3] + (t2 \div BigBase)>>

AccZero == <<0, 0, 0>>

\* the pairs of points from X1 up to the next point of the original universe
RECURSIVE SumUnit(_, _, _, _)
SumUnit(curve, extra, X1, grid) ==
  IF X1 >= grid THEN [area2 |-> AccZero, moment6 |-> AccZero]
  ELSE LET inner == { p \in extra : X1 < p /\ p < grid }
           X2 == IF inner = {} THEN grid
                 ELSE CHOOSE p \in inner : \A q \in inner : p <= q
           Y1 == curve[X1]
           Y2 == curve[X2]
           rest == SumUnit(curve, extra, X2, grid)
           a2 == SegArea2(X1, X2, Y1, Y2)
       IN IF Y1 = 0 /\ Y2 = 0 THEN rest   \* a pair of zero height adds nothing
          ELSE [area2 |-> AccPlus(rest.area2, <<LowLimb(a2), HighLimbs(a2), 0>>),
                moment6 |-> AccPlus(rest.moment6, SegMoment6(X1, X2, Y1, Y2))]

\* the pairs of points between the universe points lo and hi
RECURSIVE SumRange(_, _, _, _)
SumRange(curve, extra, lo, hi) ==
  IF hi = lo + 1 THEN SumUnit(curve, extra, XScale * lo, XScale * hi)
  ELSE LET mid == (lo + hi) \div 2
           l == SumRange(curve, extra, lo, mid)
           r == SumRange(curve, extra, mid, hi)
       IN [area2 |-> AccPlus(l.area2, r.area2), moment6 |-> AccPlus(l.moment6, r.moment6)]

\* the curve is sampled at the points of the universe and at the added points
Centroid(cuts) ==
  LET extra == NewValues(cuts)
      universe == {XScale * x : x \in 0..OutputHi} \cup extra
      curve == [X \in universe |-> Aggregate(cuts, X)]
      s == SumRange(curve, extra, 0, OutputHi)
  IN [num |-> BigNorm(s.moment6), den |-> BigNorm(s.area2)]

\* centroid defuzzification of the aggregated curve; a curve that is zero
\* everywhere has no centroid
Defuzz(cuts) ==
  LET c == Centroid(cuts)
  IN IF c.den = <<>> THEN [kind |-> "undefined"]
     ELSE [kind |-> "value", num |-> c.num, den |-> c.den]

(***************************************************************************)
(* Wait times are fractions num / (CentroidDiv * den)                      *)
(***************************************************************************)
FracLeq(p, q) == BigLeq(BigMul(p.num, q.den), BigMul(q.num, p.den))

\* lo <= p <= hi for whole numbers of seconds lo and hi
FracWithin(p, lo, hi) ==
  /\ BigLeq(BigMul(BigOfInt(CentroidDiv * lo), p.den), p.num)
  /\ BigLeq(p.num, BigMul(BigOfInt(CentroidDiv * hi), p.den))

(***************************************************************************)
(* The controller                                                          *)
(***************************************************************************)
EmptyDict == [n \in {} |-> 0]

SetItem(dict, key, value) ==
  [n \in (DOMAIN dict) \cup {key} |-> IF n = key THEN value ELSE dict[n]]

\* the simulation right after ControlSystemSimulation(system)
NewSimulation ==
  [input |-> EmptyDict, activation |-> [o \in OutputNames |-> 0], output |-> EmptyDict]

validate_input_range(value) ==
  IF ~(0 <= value /\ value <= 100) THEN "ValueError" ELSE "ok"

\* variant: the activations of the previous run are not cleared
compute_keeps_activation(sim, rs) ==
  IF ~({"waiting_cars", "incoming_cars"} \subseteq DOMAIN sim.input)
  THEN [sim |-> sim, raised |-> "ValueError"]
  ELSE LET now == Cuts(rs, sim.input["incoming_cars"], sim.input["waiting_cars"])
           act == [o \in OutputNames |-> Max2(sim.activation[o], now[o])]
           out == Defuzz(act)
       IN IF out.kind = "undefined"
          THEN [sim |-> [sim EXCEPT !.activation = act], raised |-> "ValueError"]
          ELSE [sim |-> [sim EXCEPT !.activation = act,
                                    !.output = SetItem(sim.output, "wait_time", out)],
                raised |-> "none"]

\* simulation.compute(): the activations of the previous run are cleared,
\* every rule is fired on the current inputs, the output is defuzzified
compute(sim, rs) ==
  IF ~({"waiting_cars", "incoming_cars"} \subseteq DOMAIN sim.input)
  THEN [sim |-> sim, raised |-> "ValueError"]
  ELSE LET act == Cuts(rs, sim.input["incoming_cars"], sim.input["waiting_cars"])
           out == Defuzz(act)
       IN IF out.kind = "undefined"
          THEN [sim |-> [sim EXCEPT !.activation = act], raised |-> "ValueError"]
          ELSE [sim |-> [sim EXCEPT !.activation = act,
                                    !.output = SetItem(sim.output, "wait_time", out)],
                raised |-> "none"]

Raise(sim, error) == [sim |-> sim, ret |-> [kind |-> "raised", error |-> error]]

\* variant: each input is assigned right after its own validation
compute_wait_time_check_assign(sim, rs, incoming, waiting) ==
  IF validate_input_range(incoming) # "ok" THEN Raise(sim, validate_input_range(incoming))
  ELSE LET s1 == [sim EXCEPT !.input = SetItem(sim.input, "incoming_cars", incoming)]
       IN IF validate_input_range(waiting) # "ok"
          THEN Raise(s1, validate_input_range(waiting))
          ELSE LET s2 == [s1 EXCEPT !.input = SetItem(s1.input, "waiting_cars", waiting)]
                   c == compute(s2, rs)
               IN IF c.raised # "none" THEN Raise(c.sim, c.raised)
                  ELSE [sim |-> c.sim,
                        ret |-> [kind |-> "returned", value |-> c.sim.output["wait_time"]]]

compute_wait_time(sim, rs, incoming, waiting) ==
  IF validate_input_range(incoming) # "ok" THEN Raise(sim, validate_input_range(incoming))
  ELSE IF validate_input_range(waiting) # "ok" THEN Raise(sim, validate_input_range(waiting))
  ELSE LET s1 == [sim EXCEPT !.input = SetItem(sim.input, "waiting_cars", waiting)]
           s2 == [s1 EXCEPT !.input = SetItem(s1.input, "incoming_cars", incoming)]
           c == compute(s2, rs)
       IN IF c.raised # "none" THEN Raise(c.sim, c.raised)
          ELSE [sim |-> c.sim, ret |-> [kind |-> "returned", value |-> c.sim.output["wait_time"]]]

(***************************************************************************)
(* Spec: one controller and a session of calls to compute_wait_time        *)
(***************************************************************************)
MaxCalls == 3

SampleInputs == {-1, 0, 62, 150}

NoArgs == [incoming |-> 0, waiting |-> 0]

Init ==
  /\ rules = RuleList
  /\ simulation = NewSimulation
  /\ args = NoArgs
  /\ ret = [kind |-> "none"]
  /\ calls = 0
  /\ history = <<>>

Call(incoming, waiting) ==
  /\ calls < MaxCalls
  /\ \E r \in {compute_wait_time(simulation, rules, incoming, waiting)} :
        /\ simulation' = r.sim
        /\ ret' = r.ret
  /\ args' = [incoming |-> incoming, waiting |-> waiting]
  /\ calls' = calls + 1
  /\ history' = Append(history, [args |-> args', ret |-> ret'])
  /\ UNCHANGED rules

Next == \E incoming \in SampleInputs, waiting \in SampleInputs : Call(incoming, waiting)

Spec == Init /\ [][Next]_vars

(***************************************************************************)
(* SpecFn: one call on a new controller, for every pair of car counts of   *)
(* the input universe                                                      *)
(***************************************************************************)
InitFn ==
  /\ rules = RuleList
  /\ simulation = NewSimulation
  /\ args \in [incoming : InputLo..InputHi, waiting : InputLo..InputHi]
  /\ ret = [kind |-> "none"]
  /\ calls = 0
  /\ history = <<>>

Evaluate ==
  /\ calls = 0
  /\ \E r \in {compute_wait_time(simulation, rules, args.incoming, args.waiting)} :
        /\ simulation' = r.sim
        /\ ret' = r.ret
  /\ calls' = 1
  /\ history' = Append(history, [args |-> args, ret |-> ret'])
  /\ UNCHANGED <<rules, args>>

NextFn == Evaluate

SpecFn == InitFn /\ [][NextFn]_vars

(***************************************************************************)
(* Properties                                                              *)
(***************************************************************************)
OutOfRange(value) == value < 0 \/ value > 100

Returned == ret.kind = "returned"

\* what a new controller does on its first call
FirstCall(incoming, waiting) == compute_wait_time(NewSimulation, RuleList, incoming, waiting).ret

\* C1: a call with incoming or waiting outside [0,100] raises the range
\* error, returns no wait time and leaves the simulation (its inputs, its
\* activations and its output) exactly as it was before the call.
C1_RangeErrorLeavesSession ==
  [][ (calls' = calls + 1 /\ (OutOfRange(args'.incoming) \/ OutOfRange(args'.waiting)))
        => (/\ ret'.kind = "raised"
            /\ ret'.error = "ValueError"
            /\ simulation' = simulation) ]_vars

\* a call rejected for waiting alone, after a call that returned
C1_Witness ==
  /\ calls >= 2
  /\ ret.kind = "raised"
  /\ ~OutOfRange(args.incoming)
  /\ OutOfRange(args.waiting)
  /\ "wait_time" \in DOMAIN simulation.output
  /\ simulation.input["incoming_cars"] # args.incoming

\* C2: raising one input and keeping the other never lowers the wait time.
C2_Monotonic ==
  (calls = 1 /\ Returned) =>
     /\ \A more \in args.incoming..InputHi :
          FracLeq(ret.value, Defuzz(Cuts(rules, more, args.waiting)))
     /\ \A more \in args.waiting..InputHi :
          FracLeq(ret.value, Defuzz(Cuts(rules, args.incoming, more)))

\* C3: on one controller two calls with the same inputs return the same
\* result whatever calls, returned or rejected, came between them, and the
\* result of a call is the one a new controller returns for its inputs.
C3_Determinism ==
  /\ \A j, k \in 1..Len(history) :
        (/\ history[j].args = history[k].args
         /\ history[j].ret.kind = "returned"
         /\ history[k].ret.kind = "returned") => history[j].ret = history[k].ret
  /\ Returned => ret = FirstCall(args.incoming, args.waiting)

\* the same inputs a second time, after a call with other inputs that
\* returned another value
C3_Witness ==
  /\ Len(history) = 3
  /\ history[1].ret.kind = "returned"
  /\ history[2].ret.kind = "returned"
  /\ history[2].ret # history[1].ret
  /\ history[3].args = history[1].args
  /\ history[3].ret.kind = "returned"

\* the same inputs a second time, after a rejected call
C3_WitnessRejected ==
  /\ Len(history) = 3
  /\ history[1].ret.kind = "returned"
  /\ history[2].ret.kind = "raised"
  /\ history[3].args = history[1].args
  /\ history[3].ret.kind = "returned"

\* C4: every pair of a waiting_cars term and an incoming_cars term is the
\* antecedent of exactly one rule of the 25.
C4_RuleBaseComplete ==
  \A w \in {WaitingNames[k] : k \in 1..Len(WaitingNames)} :
    \A i \in {IncomingNames[k] : k \in 1..Len(IncomingNames)} :
      Cardinality({k \in 1..Len(rules) : rules[k].waiting = w /\ rules[k].incoming = i}) = 1

\* the rule base has been fired by a call that returned
C4_Witness == Len(rules) = 25 /\ calls >= 1 /\ Returned

\* C5: for inputs in [0,100] the call returns a wait time in [0,160].
C5_OutputInUniverse ==
  calls = 1 => (Returned /\ FracWithin(ret.value, 0, OutputHi))

\* the largest wait times, above 112 seconds
C5_Witness == calls = 1 /\ Returned /\ FracWithin(ret.value, 112, OutputHi)

\* C6: incoming = 0, waiting = 0 gives a wait time between 25 and 40.
C6_LowBoundary ==
  (calls = 1 /\ args = [incoming |-> 0, waiting |-> 0])
     => (Returned /\ FracWithin(ret.value, 25, 40))

\* C7: incoming = 100, waiting = 100 gives a wait time between 140 and 155.
C7_HighBoundary ==
  (calls = 1 /\ args = [incoming |-> 100, waiting |-> 100])
     => (Returned /\ FracWithin(ret.value, 140, 155))

\* C8: incoming = 50, waiting = 50 gives a wait time between 80 and 100.
C8_MiddleBoundary ==
  (calls = 1 /\ args = [incoming |-> 50, waiting |-> 50])
     => (Returned /\ FracWithin(ret.value, 80, 100))

C8_Witness == calls = 1 /\ args = [incoming |-> 50, waiting |-> 50] /\ Returned

\* C9: for inputs in [0,100] some rule fires with strength above 0, the
\* aggregated output curve is above 0 somewhere and the centroid is defined.
C9_SomeRuleFires ==
  calls = 1 =>
     /\ \E k \in 1..Len(rules) : RuleStrength(rules[k], args.incoming, args.waiting) > 0
     /\ \E x \in 0..OutputHi : Aggregate(simulation.activation, XScale * x) > 0
     /\ Returned

\* both inputs halfway between two peaks, where no term is above one half
C9_Witness ==
  /\ calls = 1
  /\ Returned
  /\ \A k \in 1..Len(rules) :
        2 * RuleStrength(rules[k], args.incoming, args.waiting) <= DegOne + DegOne \div XScale

\* C10: medium and long are always activated to at least one half; with
\* waiting at 0, 25 or 50 all three output terms are fully activated and the
\* wait time is the same for every incoming.
C10_OrSaturation ==
  calls = 1 =>
     /\ 2 * simulation.activation.medium >= DegOne
     /\ 2 * simulation.activation.long >= DegOne
     /\ args.waiting \in {0, 25, 50} =>
          /\ \A o \in OutputNames : simulation.activation[o] = DegOne
          /\ ret = FirstCall(InputLo, args.waiting)

\* waiting at the peak of light, incoming at the peak of excess
C10_Witness ==
  calls = 1 /\ Returned /\ args = [incoming |-> 100, waiting |-> 25]

====
